---- MODULE Spec2Model ----
(***************************************************************************)
(* Model of package enum (src/enum.go): a process-wide registry of the     *)
(* values declared for each enum type, guarded by one sync.RWMutex.        *)
(*                                                                         *)
(* State: the two maps `groups` and `defs`, the mutex `mu`, the slices'    *)
(* backing arrays (`heap`), and for every calling goroutine its position   *)
(* in the function it is executing, its arguments, locals and result.      *)
(* `hist` is a history variable: for every enum type, its Def and Clear    *)
(* calls in the order in which they entered their critical sections.       *)
(***************************************************************************)
EXTENDS Naturals, Sequences, FiniteSets, TLC

\* ---------------------------------------------------------------- bounds
NumThreads == 3      \* goroutines (all of them call in SpecShare)
NumConc == 2         \* goroutines calling concurrently in SpecConc and SpecLive
NumValues == 2       \* distinct literals per underlying kind
MaxHist == 3         \* Def and Clear calls per run of one caller (Spec)
MaxHistConc == 3     \* Def and Clear calls per run of concurrent callers (SpecConc)
MaxHistKeep == 3     \* Def and Clear calls per run of a caller that keeps slices (SpecKeep)
MaxHistLive == 2     \* Def and Clear calls per run of fairly scheduled callers (SpecLive)
MaxHistShare == 1    \* Def and Clear calls per run of readers sharing the lock (SpecShare)

Threads == 1..NumThreads
ConcThreads == 1..NumConc
Values == 1..NumValues

\* ------------------------------------------------------------ enum types
\* The enum types of the test file: two with underlying type string, one int.
Types == {"OrderStatus", "UserStatus", "Access"}

\* reflect.Type.Kind() of an enum type.
Kind(T) == IF T = "Access" THEN "int" ELSE "string"

\* idOf[T](): the reflect.Type of T, unique per named type; Name() is T itself.
idOf(T) == T

\* Mutant: the key holds the value alone, as a map keyed by v would.
typeValueUntyped(typID, v) == <<"", v>>

\* typeValue[T]{typ: typID, val: v}: the composite key of defs.
typeValue(typID, v) == <<typID, v>>

\* ------------------------------------------------------- slices and heap
\* A slice is a pointer into the heap and a length; its capacity is the
\* length of the array it points to. Address 0 is nil. A free heap cell
\* holds the empty array. Unused capacity holds Zero.
Zero == 0
\* What a caller may pass to IsValid and Validate: the zero value of T ("" or
\* 0, which is never declared here) and the values that Def is called with.
Inputs == {Zero} \cup Values
NilSlice == [ptr |-> 0, len |-> 0]
Addr == 1..(Cardinality(Types) + 2 * NumThreads + 1)
Cap(h, s) == IF s.ptr = 0 THEN 0 ELSE Len(h[s.ptr])
Elems(h, s) == IF s.ptr = 0 THEN <<>> ELSE SubSeq(h[s.ptr], 1, s.len)
NewAddr(h) == CHOOSE a \in Addr : h[a] = <<>> /\ \A b \in Addr : h[b] = <<>> => a <= b

\* runtime growslice for one more element: 0 -> 1, otherwise doubled.
GrowCap(c) == IF c = 0 THEN 1 ELSE 2 * c

\* Mutant: append([]T{v}, s...), the new value in front.
appendFront(h, s, v) ==
    LET a == NewAddr(h)
    IN << [h EXCEPT ![a] = <<v>> \o Elems(h, s)], [ptr |-> a, len |-> s.len + 1] >>

\* append(s, v): in place when the capacity allows, else into a new array.
\* Result: <<heap, slice>>.
append(h, s, v) ==
    IF s.len < Cap(h, s)
    THEN << [h EXCEPT ![s.ptr][s.len + 1] = v], [ptr |-> s.ptr, len |-> s.len + 1] >>
    ELSE LET a == NewAddr(h)
             c == GrowCap(Cap(h, s))
             arr == [i \in 1..c |-> IF i <= s.len THEN h[s.ptr][i]
                                    ELSE IF i = s.len + 1 THEN v ELSE Zero]
         IN << [h EXCEPT ![a] = arr], [ptr |-> a, len |-> s.len + 1] >>

\* Mutant: ValuesOf returns the registry's own slice.
CloneAlias(h, s) == << h, s >>

\* slices.Clone(s): a new array holding the elements of s. Result: <<heap, slice>>.
Clone(h, s) ==
    IF s.len = 0 THEN << h, NilSlice >>
    ELSE LET a == NewAddr(h)
         IN << [h EXCEPT ![a] = Elems(h, s)], [ptr |-> a, len |-> s.len] >>

\* ------------------------------------------------------------------ state
VARIABLES
    groups,   \* map[typeID]any: enum type -> slice of its values
    defs,     \* map[any]struct{}: the set of typeValue keys
    heap,     \* backing arrays of all live slices
    mu,       \* sync.RWMutex
    pc,       \* per goroutine: the statement it is about to execute
    op,       \* per goroutine: the function it is in
    typ,      \* per goroutine: the type argument T
    val,      \* per goroutine: the argument v
    vals,     \* per goroutine: Def's local slice `vals`
    ret,      \* per goroutine: the result of the call
    held,     \* per goroutine: the slice its last ValuesOf call returned
    hist      \* history: per enum type, its Def and Clear calls in critical-section order

vars == <<groups, defs, heap, mu, pc, op, typ, val, vals, ret, held, hist>>

NilErr == "<nil>"
NoRet == [v |-> Zero, ok |-> FALSE, err |-> NilErr, s |-> NilSlice]

\* The garbage collector: arrays no slice points to are freed.
Collect(h, g, vl, r, hd) ==
    LET live == {g[T].ptr : T \in DOMAIN g} \cup {vl[t].ptr : t \in Threads}
                \cup {r[t].s.ptr : t \in Threads} \cup {hd[t].ptr : t \in Threads}
    IN [a \in Addr |-> IF a \in live THEN h[a] ELSE <<>>]

Init ==
    /\ groups = <<>>
    /\ defs = {}
    /\ heap = [a \in Addr |-> <<>>]
    /\ mu = [w |-> 0, wait |-> {}, r |-> {}, blocked |-> {}]
    /\ pc = [t \in Threads |-> "idle"]
    /\ op = [t \in Threads |-> "none"]
    /\ typ = [t \in Threads |-> "none"]
    /\ val = [t \in Threads |-> Zero]
    /\ vals = [t \in Threads |-> NilSlice]
    /\ ret = [t \in Threads |-> NoRet]
    /\ held = [t \in Threads |-> NilSlice]
    /\ hist = [T \in Types |-> <<>>]

\* ------------------------------------------------------------- sync.RWMutex
\* w: the writer that has announced itself (0: none); wait: the readers it
\* waits for; r: the goroutines holding the read lock; blocked: readers that
\* arrived after a writer announced itself and sleep until its Unlock.
Entry(o) == CASE o = "Def" -> "Def57"
              [] o = "IsValid" -> "IsValid70"
              [] o = "Validate" -> "Validate81"
              [] o = "ValuesOf" -> "ValuesOf103"
              [] o = "Clear" -> "Clear131"

\* Mutant: Lock that does not wait for the writer holding the mutex.
LockNoExclusion(t) ==
    /\ pc[t] = "Lock"
    /\ mu' = [mu EXCEPT !.w = t, !.wait = mu.r]
    /\ pc' = [pc EXCEPT ![t] = "LockWait"]
    /\ UNCHANGED <<groups, defs, heap, op, typ, val, vals, ret, held, hist>>

\* mu.Lock(), first half: the writer excludes other writers and later readers.
Lock(t) ==
    /\ pc[t] = "Lock"
    /\ mu.w = 0
    /\ mu' = [mu EXCEPT !.w = t, !.wait = mu.r]
    /\ pc' = [pc EXCEPT ![t] = "LockWait"]
    /\ UNCHANGED <<groups, defs, heap, op, typ, val, vals, ret, held, hist>>

\* Mutant: Lock that does not wait for the readers inside to leave.
LockWaitNoReaders(t) ==
    /\ pc[t] = "LockWait"
    /\ mu.w = t
    /\ pc' = [pc EXCEPT ![t] = Entry(op[t])]
    /\ UNCHANGED <<groups, defs, heap, mu, op, typ, val, vals, ret, held, hist>>

\* mu.Lock(), second half: the writer waits until the earlier readers have left.
LockWait(t) ==
    /\ pc[t] = "LockWait"
    /\ mu.w = t
    /\ mu.wait = {}
    /\ pc' = [pc EXCEPT ![t] = Entry(op[t])]
    /\ UNCHANGED <<groups, defs, heap, mu, op, typ, val, vals, ret, held, hist>>

\* Mutant: RLock as the Lock of a plain sync.Mutex would be: a reader sleeps
\* while any goroutine, reader or writer, holds the lock.
RLockExclusive(t) ==
    /\ pc[t] \in {"RLock", "RLockWait"}
    /\ IF pc[t] = "RLockWait"
       THEN /\ t \in mu.r
            /\ mu' = mu
            /\ pc' = [pc EXCEPT ![t] = Entry(op[t])]
       ELSE IF mu.w = 0 /\ mu.r = {}
       THEN /\ mu' = [mu EXCEPT !.r = @ \cup {t}]
            /\ pc' = [pc EXCEPT ![t] = Entry(op[t])]
       ELSE /\ mu' = [mu EXCEPT !.blocked = @ \cup {t}]
            /\ pc' = [pc EXCEPT ![t] = "RLockWait"]
    /\ UNCHANGED <<groups, defs, heap, op, typ, val, vals, ret, held, hist>>

\* Mutant: RLock that enters whether or not a writer holds or awaits the lock.
RLockBarging(t) ==
    /\ pc[t] \in {"RLock", "RLockWait"}
    /\ mu' = [mu EXCEPT !.r = @ \cup {t}]
    /\ pc' = [pc EXCEPT ![t] = Entry(op[t])]
    /\ UNCHANGED <<groups, defs, heap, op, typ, val, vals, ret, held, hist>>

\* mu.RLock(): enters at once unless a writer has announced itself; then it
\* sleeps until that writer's Unlock hands it the read lock.
RLock(t) ==
    /\ pc[t] \in {"RLock", "RLockWait"}
    /\ IF pc[t] = "RLockWait"
       THEN /\ t \in mu.r
            /\ mu' = mu
            /\ pc' = [pc EXCEPT ![t] = Entry(op[t])]
       ELSE IF mu.w = 0
       THEN /\ mu' = [mu EXCEPT !.r = @ \cup {t}]
            /\ pc' = [pc EXCEPT ![t] = Entry(op[t])]
       ELSE /\ mu' = [mu EXCEPT !.blocked = @ \cup {t}]
            /\ pc' = [pc EXCEPT ![t] = "RLockWait"]
    /\ UNCHANGED <<groups, defs, heap, op, typ, val, vals, ret, held, hist>>

\* Mutant: Unlock that releases the lock and leaves the blocked readers asleep.
UnlockNoWake(t) ==
    /\ pc[t] = "Unlock"
    /\ mu' = [mu EXCEPT !.w = 0, !.wait = {}]
    /\ pc' = [pc EXCEPT ![t] = "done"]
    /\ UNCHANGED <<groups, defs, heap, op, typ, val, vals, ret, held, hist>>

\* defer mu.Unlock(): releases the lock and admits the blocked readers.
Unlock(t) ==
    /\ pc[t] = "Unlock"
    /\ mu' = [w |-> 0, wait |-> {}, r |-> mu.r \cup mu.blocked, blocked |-> {}]
    /\ pc' = [pc EXCEPT ![t] = "done"]
    /\ UNCHANGED <<groups, defs, heap, op, typ, val, vals, ret, held, hist>>

\* defer mu.RUnlock().
RUnlock(t) ==
    /\ pc[t] = "RUnlock"
    /\ mu' = [mu EXCEPT !.r = @ \ {t}, !.wait = @ \ {t}]
    /\ pc' = [pc EXCEPT ![t] = "done"]
    /\ UNCHANGED <<groups, defs, heap, op, typ, val, vals, ret, held, hist>>

\* ------------------------------------------------------------------ calls
\* Def and Clear calls made and not yet in hist, and those in hist.
PendingWrites == Cardinality({u \in Threads : pc[u] \in {"Lock", "LockWait"}})
HistLen == Cardinality(UNION {{T} \X (1..Len(hist[T])) : T \in Types})

\* A goroutine calls o[T](v). n bounds the Def and Clear calls of a run.
Call(t, o, T, v, n) ==
    /\ pc[t] = "idle"
    /\ o \in {"Def", "Clear"} => HistLen + PendingWrites < n
    /\ op' = [op EXCEPT ![t] = o]
    /\ typ' = [typ EXCEPT ![t] = T]
    /\ val' = [val EXCEPT ![t] = v]
    /\ pc' = [pc EXCEPT ![t] = IF o \in {"Def", "Clear"} THEN "Lock" ELSE "RLock"]
    /\ UNCHANGED <<groups, defs, heap, mu, vals, ret, held, hist>>

\* The calls a goroutine makes, on the enum types TS.
DefCall(t, n, TS) == \E T \in TS, v \in Values : Call(t, "Def", T, v, n)
IsValidCall(t, n, TS) == \E T \in TS, v \in Inputs : Call(t, "IsValid", T, v, n)
ValidateCall(t, n, TS) == \E T \in TS, v \in Inputs : Call(t, "Validate", T, v, n)
ValuesOfCall(t, n, TS) == \E T \in TS : Call(t, "ValuesOf", T, Zero, n)
ClearCall(t, n, TS) == \E T \in TS : Call(t, "Clear", T, Zero, n)

\* The caller takes the result and drops it before its next call.
Return(t) ==
    /\ pc[t] = "done"
    /\ LET r == [ret EXCEPT ![t] = NoRet]
       IN /\ ret' = r
          /\ heap' = Collect(heap, groups, vals, r, held)
    /\ pc' = [pc EXCEPT ![t] = "idle"]
    /\ op' = [op EXCEPT ![t] = "none"]
    /\ typ' = [typ EXCEPT ![t] = "none"]
    /\ val' = [val EXCEPT ![t] = Zero]
    /\ UNCHANGED <<groups, defs, mu, vals, held, hist>>

\* -------------------------------------------------------------------- Def
\* Mutant: Def without the early return for a value already defined.
DefCheckNoReturn(t) ==
    /\ pc[t] = "Def57"
    /\ hist' = [hist EXCEPT ![typ[t]] = Append(@, [op |-> "Def", v |-> val[t]])]
    /\ pc' = [pc EXCEPT ![t] = "Def60"]
    /\ UNCHANGED <<groups, defs, heap, mu, op, typ, val, vals, ret, held>>

\* Mutant: the early return gives the zero value of T.
DefCheckReturnsZero(t) ==
    /\ pc[t] = "Def57"
    /\ hist' = [hist EXCEPT ![typ[t]] = Append(@, [op |-> "Def", v |-> val[t]])]
    /\ IF typeValue(idOf(typ[t]), val[t]) \in defs
       THEN /\ ret' = [ret EXCEPT ![t].v = Zero]
            /\ pc' = [pc EXCEPT ![t] = "Unlock"]
       ELSE /\ ret' = ret
            /\ pc' = [pc EXCEPT ![t] = "Def60"]
    /\ UNCHANGED <<groups, defs, heap, mu, op, typ, val, vals, held>>

\* if _, ok := defs[vKey]; ok { return v }
DefCheck(t) ==
    /\ pc[t] = "Def57"
    /\ hist' = [hist EXCEPT ![typ[t]] = Append(@, [op |-> "Def", v |-> val[t]])]
    /\ IF typeValue(idOf(typ[t]), val[t]) \in defs
       THEN /\ ret' = [ret EXCEPT ![t].v = val[t]]
            /\ pc' = [pc EXCEPT ![t] = "Unlock"]
       ELSE /\ ret' = ret
            /\ pc' = [pc EXCEPT ![t] = "Def60"]
    /\ UNCHANGED <<groups, defs, heap, mu, op, typ, val, vals, held>>

\* defs[vKey] = struct{}{}; vals, _ := groups[typID].([]T)
DefPut(t) ==
    /\ pc[t] = "Def60"
    /\ defs' = defs \cup {typeValue(idOf(typ[t]), val[t])}
    /\ vals' = [vals EXCEPT ![t] = IF idOf(typ[t]) \in DOMAIN groups
                                   THEN groups[idOf(typ[t])] ELSE NilSlice]
    /\ pc' = [pc EXCEPT ![t] = "Def62"]
    /\ UNCHANGED <<groups, heap, mu, op, typ, val, ret, held, hist>>

\* groups[typID] = append(vals, v); return v
DefAppend(t) ==
    /\ pc[t] = "Def62"
    /\ LET a == append(heap, vals[t], val[t])
           g == [T \in DOMAIN groups \cup {idOf(typ[t])} |->
                    IF T = idOf(typ[t]) THEN a[2] ELSE groups[T]]
           vl == [vals EXCEPT ![t] = NilSlice]
       IN /\ groups' = g
          /\ vals' = vl
          /\ heap' = Collect(a[1], g, vl, ret, held)
    /\ ret' = [ret EXCEPT ![t].v = val[t]]
    /\ pc' = [pc EXCEPT ![t] = "Unlock"]
    /\ UNCHANGED <<defs, mu, op, typ, val, held, hist>>

\* ---------------------------------------------------------------- IsValid
\* What IsValid[T](v) returns in the current state:
\* _, ok := defs[typeValue[T]{typ: idOf[T](), val: v}]; return ok
IsValid(T, v) == typeValue(idOf(T), v) \in defs

\* IsValid's critical section.
IsValidBody(t) ==
    /\ pc[t] = "IsValid70"
    /\ ret' = [ret EXCEPT ![t].ok = IsValid(typ[t], val[t])]
    /\ pc' = [pc EXCEPT ![t] = "RUnlock"]
    /\ UNCHANGED <<groups, defs, heap, mu, op, typ, val, vals, held, hist>>

\* --------------------------------------------------------------- Validate
\* The literals the values stand for: value i of a string type is
\* StringLit[i], value i of an integer type is IntLit[i]; Zero is "" or 0.
StringLit == <<"pending", "banned", "in_progress", "active">>
IntLit == <<1, 2, 4, 8>>

\* Mutant: %q prints its argument as %v does, without quotes.
SprintfUnquoted(fmtVerb, T, x) ==
    IF Kind(T) = "string"
    THEN (IF x = Zero THEN "" ELSE StringLit[x])
    ELSE ToString(IF x = Zero THEN 0 ELSE IntLit[x])

\* fmt.Sprintf(fmtVerb, x) for x of enum type T: %q quotes a string, %v
\* prints a string as it is and an integer in decimal.
Sprintf(fmtVerb, T, x) ==
    LET text == IF Kind(T) = "string"
                THEN (IF x = Zero THEN "" ELSE StringLit[x])
                ELSE ToString(IF x = Zero THEN 0 ELSE IntLit[x])
    IN IF fmtVerb = "%q" THEN "\"" \o text \o "\"" ELSE text

\* for _, v := range vals[1:] { sb.WriteString(fmt.Sprintf(tail, v)) }
RECURSIVE errMsgTail(_, _, _, _)
RECURSIVE errMsgTailBut1(_, _, _, _)

\* Mutant: the loop stops one element early.
errMsgTailBut1(fmtVerb, T, s, i) ==
    IF i >= Len(s) THEN ""
    ELSE ", " \o Sprintf(fmtVerb, T, s[i]) \o errMsgTailBut1(fmtVerb, T, s, i + 1)

errMsgTail(fmtVerb, T, s, i) ==
    IF i > Len(s) THEN ""
    ELSE ", " \o Sprintf(fmtVerb, T, s[i]) \o errMsgTail(fmtVerb, T, s, i + 1)

\* errMsg(fmtVerb, invalidVal, vals); vals[0] panics on an empty slice.
errMsg(fmtVerb, T, invalidVal, s) ==
    IF Len(s) = 0 THEN "panic: runtime error: index out of range [0] with length 0"
    ELSE Sprintf(fmtVerb, T, invalidVal) \o " is not a valid choice, allowed values are: "
         \o Sprintf(fmtVerb, T, s[1]) \o errMsgTail(fmtVerb, T, s, 2)

\* Mutant: Validate looks for the type's entry in groups, not for the value.
valueExistsOfType(T, v) == idOf(T) \in DOMAIN groups

\* _, valueExists := defs[typeValue[T]{typ: typ, val: v}]
valueExists(T, v) == typeValue(idOf(T), v) \in defs

\* The error of the branch `if !valueExists`: for a type without an entry in
\* groups, and for a value that is not among the type's values.
ValidateErr(T, v) ==
    LET fmtVerb == IF Kind(T) = "string" THEN "%q" ELSE "%v"
    IN IF idOf(T) \notin DOMAIN groups
       THEN T \o " doesn't have any definition"
       ELSE errMsg(fmtVerb, T, v, Elems(heap, groups[idOf(T)]))

\* What Validate[T](v) returns in the current state.
Validate(T, v) == IF valueExists(T, v) THEN NilErr ELSE ValidateErr(T, v)

\* _, valueExists := defs[...]; if !valueExists {...}; return nil
ValidateCheck(t) ==
    /\ pc[t] = "Validate81"
    /\ IF valueExists(typ[t], val[t])
       THEN /\ ret' = [ret EXCEPT ![t].err = NilErr]
            /\ pc' = [pc EXCEPT ![t] = "RUnlock"]
       ELSE /\ ret' = ret
            /\ pc' = [pc EXCEPT ![t] = "Validate83"]
    /\ UNCHANGED <<groups, defs, heap, mu, op, typ, val, vals, held, hist>>

\* Mutant: the lookup of an undeclared type leaves an empty entry in groups.
ValidateMsgCreates(t) ==
    /\ pc[t] = "Validate83"
    /\ ret' = [ret EXCEPT ![t].err = ValidateErr(typ[t], val[t])]
    /\ groups' = [T \in DOMAIN groups \cup {idOf(typ[t])} |->
                     IF T \in DOMAIN groups THEN groups[T] ELSE NilSlice]
    /\ pc' = [pc EXCEPT ![t] = "RUnlock"]
    /\ UNCHANGED <<defs, heap, mu, op, typ, val, vals, held, hist>>

\* vals, enumExists := groups[typ]; the error for an undeclared type or value.
ValidateMsg(t) ==
    /\ pc[t] = "Validate83"
    /\ ret' = [ret EXCEPT ![t].err = ValidateErr(typ[t], val[t])]
    /\ pc' = [pc EXCEPT ![t] = "RUnlock"]
    /\ UNCHANGED <<groups, defs, heap, mu, op, typ, val, vals, held, hist>>

\* --------------------------------------------------------------- ValuesOf
\* The elements of the slice ValuesOf[T]() returns in the current state.
ValuesOf(T) == IF idOf(T) \in DOMAIN groups THEN Elems(heap, groups[idOf(T)]) ELSE <<>>

\* if vals, ok := groups[idOf[T]()]; ok { return slices.Clone(vals.([]T)) }; return nil
ValuesOfBody(t) ==
    /\ pc[t] = "ValuesOf103"
    /\ LET c == IF idOf(typ[t]) \in DOMAIN groups
                THEN Clone(heap, groups[idOf(typ[t])])
                ELSE << heap, NilSlice >>
       IN /\ heap' = c[1]
          /\ ret' = [ret EXCEPT ![t].s = c[2]]
    /\ pc' = [pc EXCEPT ![t] = "RUnlock"]
    /\ UNCHANGED <<groups, defs, mu, op, typ, val, vals, held, hist>>

\* ------------------------------------------------------------------ Clear
\* Mutant: Clear without delete(groups, typID), the slice stays.
ClearGroupsKeep(t) ==
    /\ pc[t] = "Clear131"
    /\ hist' = [hist EXCEPT ![typ[t]] = Append(@, [op |-> "Clear", v |-> Zero])]
    /\ pc' = [pc EXCEPT ![t] = "Clear132"]
    /\ UNCHANGED <<groups, defs, heap, mu, op, typ, val, vals, ret, held>>

\* Mutant: clear(groups), every type's slice is deleted.
ClearGroupsAll(t) ==
    /\ pc[t] = "Clear131"
    /\ hist' = [hist EXCEPT ![typ[t]] = Append(@, [op |-> "Clear", v |-> Zero])]
    /\ groups' = <<>>
    /\ heap' = Collect(heap, <<>>, vals, ret, held)
    /\ pc' = [pc EXCEPT ![t] = "Clear132"]
    /\ UNCHANGED <<defs, mu, op, typ, val, vals, ret, held>>

\* Mutant: groups[typID] = nil, the key stays with an empty slice.
ClearGroupsEmpty(t) ==
    /\ pc[t] = "Clear131"
    /\ hist' = [hist EXCEPT ![typ[t]] = Append(@, [op |-> "Clear", v |-> Zero])]
    /\ LET g == [T \in DOMAIN groups \cup {idOf(typ[t])} |->
                    IF T = idOf(typ[t]) THEN NilSlice ELSE groups[T]]
       IN /\ groups' = g
          /\ heap' = Collect(heap, g, vals, ret, held)
    /\ pc' = [pc EXCEPT ![t] = "Clear132"]
    /\ UNCHANGED <<defs, mu, op, typ, val, vals, ret, held>>

\* typID := idOf[T](); delete(groups, typID)
ClearGroups(t) ==
    /\ pc[t] = "Clear131"
    /\ hist' = [hist EXCEPT ![typ[t]] = Append(@, [op |-> "Clear", v |-> Zero])]
    /\ LET g == [T \in DOMAIN groups \ {idOf(typ[t])} |-> groups[T]]
       IN /\ groups' = g
          /\ heap' = Collect(heap, g, vals, ret, held)
    /\ pc' = [pc EXCEPT ![t] = "Clear132"]
    /\ UNCHANGED <<defs, mu, op, typ, val, vals, ret, held>>

\* Mutant: the loop deletes every key, whatever its type.
ClearDefsAll(t) ==
    /\ pc[t] = "Clear132"
    /\ defs' = {}
    /\ pc' = [pc EXCEPT ![t] = "Unlock"]
    /\ UNCHANGED <<groups, heap, mu, op, typ, val, vals, ret, held, hist>>

\* Mutant: Clear deletes the type's slice and leaves its keys in defs.
ClearDefsNone(t) ==
    /\ pc[t] = "Clear132"
    /\ pc' = [pc EXCEPT ![t] = "Unlock"]
    /\ UNCHANGED <<groups, defs, heap, mu, op, typ, val, vals, ret, held, hist>>

\* for k := range defs { if v, ok := k.(typeValue[T]); ok && v.typ == typID { delete(defs, k) } }
ClearDefs(t) ==
    /\ pc[t] = "Clear132"
    /\ defs' = {k \in defs : k[1] # idOf(typ[t])}
    /\ pc' = [pc EXCEPT ![t] = "Unlock"]
    /\ UNCHANGED <<groups, heap, mu, op, typ, val, vals, ret, held, hist>>

\* ------------------------------------------------------------- the caller
\* The caller keeps the slice ValuesOf returned.
Keep(t) ==
    /\ pc[t] = "done"
    /\ op[t] = "ValuesOf"
    /\ LET hd == [held EXCEPT ![t] = ret[t].s]
           r == [ret EXCEPT ![t] = NoRet]
       IN /\ held' = hd
          /\ ret' = r
          /\ heap' = Collect(heap, groups, vals, r, hd)
    /\ pc' = [pc EXCEPT ![t] = "idle"]
    /\ op' = [op EXCEPT ![t] = "none"]
    /\ typ' = [typ EXCEPT ![t] = "none"]
    /\ val' = [val EXCEPT ![t] = Zero]
    /\ UNCHANGED <<groups, defs, mu, vals, hist>>

\* "It is safe to modify the returned slice": the caller overwrites an
\* element of the slice it keeps.
Mutate(t) ==
    /\ pc[t] = "idle"
    /\ held[t].ptr # 0
    /\ \E i \in 1..held[t].len, x \in Values :
        /\ heap[held[t].ptr][i] # x
        /\ heap' = [heap EXCEPT ![held[t].ptr][i] = x]
    /\ UNCHANGED <<groups, defs, mu, pc, op, typ, val, vals, ret, held, hist>>

\* ---------------------------------------------------------- specifications
\* The steps of goroutine t inside a call, from mu.Lock() or mu.RLock() to the
\* deferred unlock.
Inner(t) ==
    \/ Lock(t) \/ LockWait(t) \/ RLock(t) \/ Unlock(t) \/ RUnlock(t)
    \/ DefCheck(t) \/ DefPut(t) \/ DefAppend(t)
    \/ IsValidBody(t) \/ ValidateCheck(t) \/ ValidateMsg(t) \/ ValuesOfBody(t)
    \/ ClearGroups(t) \/ ClearDefs(t)

Step(t, n, TS) ==
    \/ DefCall(t, n, TS) \/ IsValidCall(t, n, TS) \/ ValidateCall(t, n, TS)
    \/ ValuesOfCall(t, n, TS) \/ ClearCall(t, n, TS)
    \/ Inner(t)
    \/ Return(t)

\* One goroutine makes the calls, one after the other.
Next == Step(1, MaxHist, Types)
Spec == Init /\ [][Next]_vars

\* All goroutines make calls concurrently, on one enum type.
ConcTypes == {"OrderStatus"}
NextConc == \E t \in ConcThreads : Step(t, MaxHistConc, ConcTypes)
SpecConc == Init /\ [][NextConc]_vars

\* One goroutine makes the calls, on one enum type, keeps the slices it gets
\* and modifies them.
KeepTypes == {"OrderStatus"}
NextKeep == Step(1, MaxHistKeep, KeepTypes) \/ Keep(1) \/ Mutate(1)
SpecKeep == Init /\ [][NextKeep]_vars

\* All goroutines make calls concurrently, on one enum type, and the Go
\* scheduler runs every goroutine that can run: a goroutine inside a call
\* whose next step stays possible takes it. Nothing makes a goroutine start a
\* call or pick up a result.
NextLive == \E t \in ConcThreads : Step(t, MaxHistLive, ConcTypes)
SpecLive == Init /\ [][NextLive]_vars /\ \A t \in ConcThreads : WF_vars(Inner(t))

\* Three goroutines make calls concurrently, on one enum type: readers meet
\* readers while a writer holds or awaits the lock.
NextShare == \E t \in Threads : Step(t, MaxHistShare, ConcTypes)
SpecShare == Init /\ [][NextShare]_vars

\* ------------------------------------------------------------- the history
\* Nothing below is read by the program: these operators say what the calls
\* recorded in hist amount to. h is the history of one enum type.

\* No call is between its first and its last write to the registry.
Quiescent == \A t \in Threads : pc[t] \notin {"Def60", "Def62", "Clear132"}

DefOf(v) == [op |-> "Def", v |-> v]
ClearOf == [op |-> "Clear", v |-> Zero]

\* Def[T](v) occurs in T's history h.
EverDef(h, v) == \E i \in 1..Len(h) : h[i] = DefOf(v)

\* The position of the last Clear[T]() in h, 0 if there is none.
LastClear(h) ==
    LET cs == {i \in 1..Len(h) : h[i].op = "Clear"}
    IN IF cs = {} THEN 0 ELSE CHOOSE i \in cs : \A j \in cs : j <= i

\* The positions in h of the Def[T] calls after the last Clear[T]().
DefsSince(h) == (LastClear(h) + 1)..Len(h)

\* The values declared for T in h: passed to Def[T] after the last Clear[T]().
DeclSet(h) == {h[i].v : i \in DefsSince(h)}

\* The position in h of the first declaration of v.
FirstDecl(h, v) ==
    LET ds == {i \in DefsSince(h) : h[i].v = v}
    IN CHOOSE i \in ds : \A j \in ds : i <= j

\* s lists exactly the values declared in h, each once, in the order of
\* their first declarations.
IsDeclSeq(s, h) ==
    /\ {s[i] : i \in 1..Len(s)} = DeclSet(h)
    /\ \A i, j \in 1..Len(s) : i < j => FirstDecl(h, s[i]) < FirstDecl(h, s[j])

\* The sequence of the values declared in h: the k-th is the value with k-1
\* values declared before it.
DeclSeq(h) ==
    LET D == DeclSet(h)
    IN [k \in 1..Cardinality(D) |->
          CHOOSE v \in D :
             Cardinality({u \in D : FirstDecl(h, u) < FirstDecl(h, v)}) = k - 1]

\* Clear[T]() was called and Def[T] has not been called since.
Cleared(h) == LastClear(h) > 0 /\ DefsSince(h) = {}

\* Clear[T]() does not occur in h.
NoClear(h) == LastClear(h) = 0

\* What the read operations can tell of the registry.
RegistryView == << defs, DOMAIN groups, [T \in Types |-> ValuesOf(T)] >>

\* The history of T before the call goroutine t is making (a Def call enters
\* hist at line 57).
Prior(t) ==
    IF pc[t] = "Def57" THEN hist[typ[t]]
    ELSE SubSeq(hist[typ[t]], 1, Len(hist[typ[t]]) - 1)

\* Goroutine t is inside a Def[T](v) call made when v was declared for T.
Redeclaring(t) ==
    /\ op[t] = "Def" /\ pc[t] \in {"Def57", "Def60", "Def62"}
    /\ val[t] \in DeclSet(Prior(t))

\* The items of s from the n-th on, each as Sprintf prints it, ", " between.
RECURSIVE Listed(_, _, _, _)
Listed(fmtVerb, T, s, n) ==
    IF n > Len(s) THEN ""
    ELSE IF n = Len(s) THEN Sprintf(fmtVerb, T, s[n])
    ELSE Sprintf(fmtVerb, T, s[n]) \o ", " \o Listed(fmtVerb, T, s, n + 1)

\* The two errors of Validate, as the specification words them.
UndeclaredType(T) == T \o " doesn't have any definition"
UnknownValue(T, v, s) ==
    LET fmtVerb == IF Kind(T) = "string" THEN "%q" ELSE "%v"
    IN Sprintf(fmtVerb, T, v) \o " is not a valid choice, allowed values are: "
       \o Listed(fmtVerb, T, s, 1)

\* The error Validate[T](v) owes for a value v that h does not declare.
ErrorFor(T, v, h) ==
    IF DeclSet(h) = {} THEN UndeclaredType(T) ELSE UnknownValue(T, v, DeclSeq(h))

\* ----------------------------------------------------------------- claims
\* C1 (scoping): whenever Def[A](x) has occurred and Def[B](x) never has, for
\* enum types A # B, IsValid[B](x) is false, both as the registry stands and as
\* the result of an IsValid[B](x) call; and no step of a Def[A] call changes
\* what IsValid[B], Validate[B] and ValuesOf[B] give for another type B.
C1_Scoped ==
    /\ Quiescent =>
         \A A \in Types, B \in Types, x \in Inputs :
            (A # B /\ EverDef(hist[A], x) /\ ~EverDef(hist[B], x)) => ~IsValid(B, x)
    /\ \A t \in Threads :
         (pc[t] = "done" /\ op[t] = "IsValid" /\ ~EverDef(hist[typ[t]], val[t]))
            => ~ret[t].ok
C1_DefFrame ==
    \A t \in Threads :
       (op[t] = "Def" /\ pc'[t] # pc[t]) =>
          \A B \in Types \ {typ[t]} :
             /\ ValuesOf(B)' = ValuesOf(B)
             /\ (B \in DOMAIN groups)' = (B \in DOMAIN groups)
             /\ \A x \in Inputs : IsValid(B, x)' = IsValid(B, x)
C1_Scoping == [](C1_Scoped) /\ [][C1_DefFrame]_vars

\* C1 witness: "pending" (value 1) is declared for one type and an IsValid call
\* for another type of the same kind, for which it never was, returned false.
C1_Witness ==
    /\ pc[1] = "done" /\ op[1] = "IsValid" /\ typ[1] = "UserStatus" /\ val[1] = 1
    /\ ~ret[1].ok
    /\ IsValid("OrderStatus", 1) /\ EverDef(hist["OrderStatus"], 1)
    /\ ~EverDef(hist["UserStatus"], 1)

\* C2 as stated: in every state between the registry's writes, v is valid for
\* T iff Def[T](v) was called at least once.
C2_Original ==
    Quiescent => \A T \in Types, v \in Inputs : IsValid(T, v) <=> EverDef(hist[T], v)

\* C2 (membership), amended: v is a member of T's Declaration Set iff Def[T](v)
\* was called at least once after the last Clear[T]() (at least once at all,
\* if T was never cleared); an IsValid[T](v) call returns exactly that.
C2_Membership ==
    /\ Quiescent => \A T \in Types :
         LET D == DeclSet(hist[T]) IN \A v \in Inputs : IsValid(T, v) <=> v \in D
    /\ \A t \in Threads :
         (pc[t] = "done" /\ op[t] = "IsValid") => (ret[t].ok <=> val[t] \in DeclSet(hist[typ[t]]))

\* C2 witness: value 1 was declared for OrderStatus and cleared, value 2 was
\* declared afterwards; an IsValid call for value 1 returned false.
C2_Witness ==
    /\ pc[1] = "done" /\ op[1] = "IsValid" /\ typ[1] = "OrderStatus" /\ val[1] = 1
    /\ ~ret[1].ok
    /\ hist["OrderStatus"] = << DefOf(1), ClearOf, DefOf(2) >>
    /\ IsValid("OrderStatus", 2)

\* C3 (idempotent declaration): no step of a Def[T](v) call made when v is
\* already declared for T changes the registry (the key set, the types that
\* have a slice, any type's sequence), and every declared value occurs exactly
\* once in its type's sequence.
C3_Once ==
    Quiescent => \A T \in Types : \A v \in DeclSet(hist[T]) :
        Cardinality({i \in 1..Len(ValuesOf(T)) : ValuesOf(T)[i] = v}) = 1
C3_Step ==
    \A t \in Threads : (Redeclaring(t) /\ pc'[t] # pc[t]) => RegistryView' = RegistryView
C3_Idempotent == [](C3_Once) /\ [][C3_Step]_vars

\* C3 witness: Def[OrderStatus] was called with 1, 2 and 1 again; the last call
\* is done and the sequence is still <<1, 2>>.
C3_Witness ==
    /\ pc[1] = "done" /\ op[1] = "Def" /\ typ[1] = "OrderStatus"
    /\ hist["OrderStatus"] = << DefOf(1), DefOf(2), DefOf(1) >>
    /\ ValuesOf("OrderStatus") = <<1, 2>>

\* C4 (order preservation): the sequence of every type T, and the slice a
\* ValuesOf[T]() call returns, lists the values declared for T, each once, in
\* the order of their first declarations, however the Def calls for T are
\* interleaved with those for other types.
C4_Order ==
    /\ Quiescent => \A T \in Types : IsDeclSeq(ValuesOf(T), hist[T])
    /\ \A t \in Threads :
         (pc[t] = "done" /\ op[t] = "ValuesOf") => IsDeclSeq(Elems(heap, ret[t].s), hist[typ[t]])

\* C4 witness: 2 and then 1 were declared for OrderStatus and 1 for
\* UserStatus; ValuesOf[OrderStatus]() returned <<2, 1>>.
C4_Witness ==
    /\ pc[1] = "done" /\ op[1] = "ValuesOf" /\ typ[1] = "OrderStatus"
    /\ hist["OrderStatus"] = << DefOf(2), DefOf(1) >>
    /\ hist["UserStatus"] = << DefOf(1) >>
    /\ Elems(heap, ret[1].s) = <<2, 1>>

\* C5 (validity round trip): every value v declared for T (by the history,
\* or listed by ValuesOf[T]) is valid for T, an IsValid[T](v) call returns true
\* for it and a Validate[T](v) call returns nil; and a Validate[T](v) call
\* returns nil exactly when IsValid[T](v) is true in the same state.
C5_RoundTrip ==
    /\ Quiescent => \A T \in Types :
         \A v \in DeclSet(hist[T]) \cup {ValuesOf(T)[i] : i \in 1..Len(ValuesOf(T))} :
            IsValid(T, v)
    /\ \A t \in Threads :
         LET declared == DeclSet(hist[typ[t]])
                           \cup {ValuesOf(typ[t])[i] : i \in 1..Len(ValuesOf(typ[t]))}
         IN /\ (pc[t] = "done" /\ op[t] = "IsValid" /\ val[t] \in declared) => ret[t].ok
            /\ (pc[t] = "done" /\ op[t] = "Validate") =>
                  /\ val[t] \in declared => ret[t].err = NilErr
                  /\ ret[t].err = NilErr <=> IsValid(typ[t], val[t])

\* C5 witness: a Validate call for a declared value returned nil while the
\* type has another value that is not declared.
C5_Witness ==
    /\ pc[1] = "done" /\ op[1] = "Validate" /\ ret[1].err = NilErr
    /\ val[1] \in DeclSet(hist[typ[1]]) /\ IsValid(typ[1], val[1])
    /\ \E v \in Values : ~IsValid(typ[1], v)

\* C6 (the two failures of Validate): a Validate[T](v) call for a value v
\* that is not valid for T returns the error "<T> doesn't have any definition"
\* when T has no declarations, and otherwise the error that names v and lists
\* all values declared for T in first-declared order; a Validate call returns
\* nothing else but nil, and nil only for a valid value.
C6_Variants ==
    \A t \in Threads :
       (pc[t] = "done" /\ op[t] = "Validate") =>
          IF IsValid(typ[t], val[t]) THEN ret[t].err = NilErr
          ELSE /\ val[t] \notin DeclSet(hist[typ[t]])
               /\ ret[t].err = ErrorFor(typ[t], val[t], hist[typ[t]])

\* C6 witness: 2 and then 1 were declared for OrderStatus; Validate of the
\* zero value returned the error listing 2 before 1.
C6_Witness ==
    /\ pc[1] = "done" /\ op[1] = "Validate" /\ typ[1] = "OrderStatus" /\ val[1] = Zero
    /\ DeclSeq(hist["OrderStatus"]) = <<2, 1>>
    /\ ret[1].err = "\"\" is not a valid choice, allowed values are: \"banned\", \"pending\""

\* C7 (Clear resets state): after Clear[T]() and until the next Def[T] call,
\* IsValid[T](v) is false for every v, ValuesOf[T]() is empty (nil) and
\* Validate[T](v) is the error "<T> doesn't have any definition" for every v,
\* both as the registry stands and as the results of the calls.
C7_ClearResets ==
    /\ Quiescent => \A T \in Types :
         Cleared(hist[T]) =>
            /\ ValuesOf(T) = <<>>
            /\ \A v \in Inputs : ~IsValid(T, v) /\ Validate(T, v) = UndeclaredType(T)
    /\ \A t \in Threads :
         (pc[t] = "done" /\ Cleared(hist[typ[t]])) =>
            /\ op[t] = "IsValid" => ~ret[t].ok
            /\ op[t] = "ValuesOf" => ret[t].s = NilSlice
            /\ op[t] = "Validate" => ret[t].err = UndeclaredType(typ[t])

\* C7 witness: 1 and 2 were declared for OrderStatus, then it was cleared; a
\* Validate call for 1 returned the error for a type without definitions.
C7_Witness ==
    /\ pc[1] = "done" /\ op[1] = "Validate" /\ typ[1] = "OrderStatus" /\ val[1] = 1
    /\ hist["OrderStatus"] = << DefOf(1), DefOf(2), ClearOf >>
    /\ ret[1].err = "OrderStatus doesn't have any definition"

\* C8 (concurrent Def): with goroutines calling concurrently, as long as T is
\* never cleared, whenever no call is between its writes (in particular when
\* all calls have returned) the values valid for T are exactly the values
\* passed to Def[T], and T's sequence holds each of them exactly once.
C8_ConcurrentDef ==
    Quiescent => \A T \in Types :
        NoClear(hist[T]) =>
           LET passed == {v \in Inputs : EverDef(hist[T], v)}
           IN /\ {v \in Inputs : IsValid(T, v)} = passed
              /\ {ValuesOf(T)[i] : i \in 1..Len(ValuesOf(T))} = passed
              /\ Len(ValuesOf(T)) = Cardinality(passed)

\* C8 witness: two goroutines are in Def calls for the same type with
\* different values at the same time; both have made their writes, the second
\* goroutine's first.
C8_Witness ==
    /\ pc[1] = "done" /\ op[1] = "Def" /\ pc[2] = "done" /\ op[2] = "Def"
    /\ typ[1] = typ[2] /\ val[1] # val[2]
    /\ NoClear(hist[typ[1]])
    /\ ValuesOf(typ[1]) = <<val[2], val[1]>>

\* C9 (ValuesOf returns a copy): what IsValid, Validate and ValuesOf give is
\* decided by the history of Def and Clear calls alone, whatever the caller
\* did to the slices it was given; no modification of a kept slice changes the
\* registry; and no step but the caller's own modification changes the
\* elements of a slice it keeps.
C9_ByHistory ==
    /\ Quiescent => \A T \in Types :
         /\ ValuesOf(T) = DeclSeq(hist[T])
         /\ \A v \in Inputs : IsValid(T, v) <=> v \in DeclSet(hist[T])
    /\ \A t \in Threads :
         LET h == hist[typ[t]]
         IN /\ (pc[t] = "done" /\ op[t] = "IsValid") => (ret[t].ok <=> val[t] \in DeclSet(h))
            /\ (pc[t] = "done" /\ op[t] = "ValuesOf") => Elems(heap, ret[t].s) = DeclSeq(h)
            /\ (pc[t] = "done" /\ op[t] = "Validate") =>
                  ret[t].err = IF val[t] \in DeclSet(h) THEN NilErr
                               ELSE ErrorFor(typ[t], val[t], h)
C9_MutateFrame == \A t \in Threads : Mutate(t) => RegistryView' = RegistryView
C9_KeptStable ==
    \A t \in Threads :
       (held'[t] = held[t] /\ ~Mutate(t)) => Elems(heap', held[t]) = Elems(heap, held[t])
C9_Copy == [](C9_ByHistory) /\ [][C9_MutateFrame /\ C9_KeptStable]_vars

\* C9 witness: the caller keeps the slice <<2, 1>> that ValuesOf returned,
\* has overwritten its first element, and a later ValuesOf call for the same
\* type returned <<2, 1>> again.
C9_Witness ==
    /\ held[1].len = 2 /\ Elems(heap, held[1]) = <<1, 1>>
    /\ pc[1] = "done" /\ op[1] = "ValuesOf" /\ typ[1] = "OrderStatus"
    /\ Elems(heap, ret[1].s) = <<2, 1>>
    /\ DeclSeq(hist["OrderStatus"]) = <<2, 1>>

\* C10 (Def is the identity): a Def[T](v) call returns v, whether v is new for
\* T, already declared, or declared again after a Clear; and no call but a
\* Validate call ends with an error.
C10_DefReturns ==
    \A t \in Threads :
       /\ (op[t] = "Def" /\ pc[t] \in {"Unlock", "done"}) => ret[t].v = val[t]
       /\ op[t] # "Validate" => ret[t].err = NilErr

\* C10 witness: a Def call for a value that was declared again after a Clear
\* and is declared once more (so it is already declared) is done and returned
\* the value.
C10_Witness ==
    /\ pc[1] = "done" /\ op[1] = "Def" /\ typ[1] = "OrderStatus" /\ val[1] = 2
    /\ hist["OrderStatus"] = << ClearOf, DefOf(2), DefOf(2) >>
    /\ ret[1].v = 2


\* C11 (formatting by kind): the 'unknown value' error of a Validate[T](v)
\* call is the invalid value, then " is not a valid choice, allowed values
\* are: ", then the values declared for T with ", " between them; every value
\* is in double quotes when T's underlying type is string and a plain decimal
\* number when it is an integer type.
QuotedText == <<"\"pending\"", "\"banned\"", "\"in_progress\"", "\"active\"">>
PlainNumber == <<"1", "2", "4", "8">>
Rendered(T, x) ==
    IF Kind(T) = "string" THEN (IF x = Zero THEN "\"\"" ELSE QuotedText[x])
    ELSE (IF x = Zero THEN "0" ELSE PlainNumber[x])
RECURSIVE Joined(_, _, _)
Joined(T, s, n) ==
    IF n > Len(s) THEN ""
    ELSE (IF n = 1 THEN "" ELSE ", ") \o Rendered(T, s[n]) \o Joined(T, s, n + 1)
C11_Formatting ==
    \A t \in Threads :
       (/\ pc[t] = "done" /\ op[t] = "Validate"
        /\ val[t] \notin DeclSet(hist[typ[t]]) /\ DeclSet(hist[typ[t]]) # {}) =>
          ret[t].err = Rendered(typ[t], val[t])
                       \o " is not a valid choice, allowed values are: "
                       \o Joined(typ[t], DeclSeq(hist[typ[t]]), 1)

\* C11 witness: 2 and then 1 were declared for the integer type Access;
\* Validate of its zero value returned the error with plain numbers.
C11_Witness ==
    /\ pc[1] = "done" /\ op[1] = "Validate" /\ typ[1] = "Access" /\ val[1] = Zero
    /\ DeclSeq(hist["Access"]) = <<2, 1>>
    /\ ret[1].err = "0 is not a valid choice, allowed values are: 2, 1"


\* Goroutine t is inside the critical section of a Def or Clear call: between
\* the return of mu.Lock() and the deferred mu.Unlock().
WriterInside(t) == pc[t] \in {"Def57", "Def60", "Def62", "Clear131", "Clear132", "Unlock"}

\* Goroutine t is inside the critical section of an IsValid, Validate or
\* ValuesOf call: between the return of mu.RLock() and the deferred mu.RUnlock().
ReaderInside(t) ==
    pc[t] \in {"IsValid70", "Validate81", "Validate83", "ValuesOf103", "RUnlock"}

\* C12 (locking discipline): in every state of every interleaving, while a
\* Def or Clear call is inside its critical section no call of another
\* goroutine, of any of the five operations, is inside its critical section;
\* only calls of Def and Clear are ever in a writer's critical section and only
\* calls of IsValid, Validate and ValuesOf in a reader's.
C12_Exclusion ==
    /\ \A t \in Threads, u \in Threads :
         (t # u /\ WriterInside(t)) => (~WriterInside(u) /\ ~ReaderInside(u))
    /\ \A t \in Threads :
         /\ WriterInside(t) => op[t] \in {"Def", "Clear"}
         /\ ReaderInside(t) => op[t] \in {"IsValid", "Validate", "ValuesOf"}

\* C12 witness: goroutine 1 is in Def between its two writes (line 62) while
\* goroutine 2, which called Validate for the same type, sleeps in RLock.
C12_Witness ==
    /\ pc[1] = "Def62" /\ op[1] = "Def"
    /\ pc[2] = "RLockWait" /\ op[2] = "Validate" /\ typ[2] = typ[1]
    /\ 2 \in mu.blocked


\* Goroutine t has made the first and not the last write of its Def or Clear
\* call: no other goroutine is inside a critical section then (C12).
MidWrite(t) == pc[t] \in {"Def62", "Clear132"}

\* The values of T that have a key in defs.
KeysOf(T) == {k[2] : k \in {d \in defs : d[1] = idOf(T)}}

\* C13 (set/sequence consistency): in every state that an operation finds
\* when it gets the lock, and until a Def or Clear makes its first write: every
\* key of defs is of an enum type, and for every type T: T is a key of groups
\* iff defs has a key (T, v); the values in groups[T] are exactly the v with
\* (T, v) in defs, each once; and groups[T], when present, is not empty, so
\* errMsg's vals[0] is in bounds and no Validate call ends in its panic.
C13_Consistent ==
    /\ (\A t \in Threads : ~MidWrite(t)) =>
         /\ \A d \in defs : d[1] \in {idOf(T) : T \in Types}
         /\ \A T \in Types :
              /\ idOf(T) \in DOMAIN groups <=> KeysOf(T) # {}
              /\ idOf(T) \in DOMAIN groups =>
                   /\ groups[idOf(T)].len >= 1
                   /\ groups[idOf(T)].ptr # 0
                   /\ {ValuesOf(T)[i] : i \in 1..Len(ValuesOf(T))} = KeysOf(T)
                   /\ Len(ValuesOf(T)) = Cardinality(KeysOf(T))
    /\ \A t \in Threads :
         pc[t] = "Validate83" =>
            (idOf(typ[t]) \in DOMAIN groups => Len(Elems(heap, groups[idOf(typ[t])])) >= 1)

\* C13 witness: a Validate call holds the read lock and is about to build its
\* message from groups[OrderStatus], which has two values; UserStatus was
\* cleared without ever being declared and has neither a slice nor a key.
C13_Witness ==
    /\ pc[1] = "Validate83" /\ typ[1] = "OrderStatus" /\ val[1] = Zero
    /\ Len(ValuesOf("OrderStatus")) = 2 /\ KeysOf("OrderStatus") = {1, 2}
    /\ hist["UserStatus"] = << ClearOf >>
    /\ "UserStatus" \notin DOMAIN groups /\ KeysOf("UserStatus") = {}


\* C14 (Clear touches one type): no step of a Clear[T]() call changes, for any
\* other type U, whether U has a slice in groups, the sequence ValuesOf[U]()
\* gives, or what IsValid[U](x) and Validate[U](x) give for any x, also when U
\* has the same underlying type and the same declared literals as T.
C14_Step ==
    \A t \in Threads :
       (op[t] = "Clear" /\ pc'[t] # pc[t]) =>
          \A U \in Types \ {typ[t]} :
             /\ (idOf(U) \in DOMAIN groups)' = (idOf(U) \in DOMAIN groups)
             /\ ValuesOf(U)' = ValuesOf(U)
             /\ KeysOf(U)' = KeysOf(U)
             /\ \A x \in Inputs :
                   /\ IsValid(U, x)' = IsValid(U, x)
                   /\ Validate(U, x)' = Validate(U, x)
C14_ClearFrame == [][C14_Step]_vars

\* C14 witness: "pending" (value 1) was declared for OrderStatus and for
\* UserStatus, both string types; Clear[OrderStatus]() is done, the value is
\* no longer valid for OrderStatus and UserStatus is as it was.
C14_Witness ==
    /\ pc[1] = "done" /\ op[1] = "Clear" /\ typ[1] = "OrderStatus"
    /\ hist["OrderStatus"] = << DefOf(1), ClearOf >>
    /\ hist["UserStatus"] = << DefOf(1) >>
    /\ ~IsValid("OrderStatus", 1)
    /\ IsValid("UserStatus", 1) /\ ValuesOf("UserStatus") = <<1>>
    /\ Validate("UserStatus", 1) = NilErr


\* The Def[T] calls of h after its last Clear[T](), and the values they were
\* given in the order in which each was given first.
SinceClear(h) == SubSeq(h, LastClear(h) + 1, Len(h))
RECURSIVE FirstSeen(_)
FirstSeen(s) ==
    IF s = <<>> THEN <<>>
    ELSE LET r == FirstSeen(SubSeq(s, 1, Len(s) - 1))
             x == s[Len(s)].v
         IN IF \E i \in 1..Len(r) : r[i] = x THEN r ELSE Append(r, x)

\* C15 (lifecycle after Clear): for a type T that was cleared at least once,
\* whenever no call is between its writes: T's sequence is the values given to
\* Def[T] after the most recent Clear[T](), in the order of their first
\* declaration after it; exactly those values are valid; a value declared only
\* before that Clear is invalid and Validate rejects it; and with no Def[T]
\* after the Clear, T is as it was before its first declaration (no slice, no
\* key). A ValuesOf[T]() call returns that sequence.
C15_Lifecycle ==
    /\ Quiescent => \A T \in Types :
         LET h == hist[T]
             now == FirstSeen(SinceClear(h))
         IN LastClear(h) > 0 =>
              /\ ValuesOf(T) = now
              /\ KeysOf(T) = {now[i] : i \in 1..Len(now)}
              /\ \A v \in Values :
                    (EverDef(h, v) /\ ~EverDef(SinceClear(h), v)) =>
                       (~IsValid(T, v) /\ Validate(T, v) # NilErr)
              /\ SinceClear(h) = <<>> => (idOf(T) \notin DOMAIN groups /\ KeysOf(T) = {})
    /\ \A t \in Threads :
         (pc[t] = "done" /\ op[t] = "ValuesOf" /\ LastClear(hist[typ[t]]) > 0) =>
            Elems(heap, ret[t].s) = FirstSeen(SinceClear(hist[typ[t]]))

\* C15 witness: OrderStatus was declared with 1, cleared and declared with 2;
\* ValuesOf[OrderStatus]() returned <<2>> and 1 is not valid.
C15_Witness ==
    /\ pc[1] = "done" /\ op[1] = "ValuesOf" /\ typ[1] = "OrderStatus"
    /\ hist["OrderStatus"] = << DefOf(1), ClearOf, DefOf(2) >>
    /\ Elems(heap, ret[1].s) = <<2>>
    /\ ~IsValid("OrderStatus", 1) /\ IsValid("OrderStatus", 2)


\* C16 (Validate reports one snapshot): with goroutines calling Def[T],
\* Clear[T] and Validate[T] concurrently, the result of every Validate[T](v)
\* call is the one owed at a single point of T's history, that is after some
\* prefix p of its Def and Clear calls: nil if p declares v; otherwise, with v
\* not declared by p, the 'no definition' error if p declares nothing and the
\* 'unknown value' error listing exactly the sequence p declares. So the list
\* is never empty, never holds v, and the call never ends in errMsg's panic.
C16_At(t, p) ==
    IF val[t] \in DeclSet(p) THEN ret[t].err = NilErr
    ELSE ret[t].err = ErrorFor(typ[t], val[t], p)
C16_Snapshot ==
    \A t \in Threads :
       (pc[t] = "done" /\ op[t] = "Validate") =>
          /\ \E n \in 0..Len(hist[typ[t]]) : C16_At(t, SubSeq(hist[typ[t]], 1, n))
          /\ ret[t].err # UnknownValue(typ[t], val[t], <<>>)
          /\ \A s \in {<<val[t]>>} \cup {<<val[t], x>> : x \in Values} \cup {<<x, val[t]>> : x \in Values} :
                ret[t].err # UnknownValue(typ[t], val[t], s)

\* C16 witness: a Validate call returned the error listing "pending" alone,
\* the sequence when it held the lock; since then another goroutine's Def has
\* declared "banned" too, so the list is that of an earlier point in time.
C16_Witness ==
    /\ pc[1] = "done" /\ op[1] = "Validate" /\ typ[1] = "OrderStatus" /\ val[1] = Zero
    /\ ret[1].err = "\"\" is not a valid choice, allowed values are: \"pending\""
    /\ pc[2] = "done" /\ op[2] = "Def" /\ typ[2] = "OrderStatus" /\ val[2] = 2
    /\ hist["OrderStatus"] = << DefOf(1), DefOf(2) >>
    /\ ValuesOf("OrderStatus") = <<1, 2>>


\* C17 (no operation blocks for ever): under fair scheduling every call a
\* goroutine has started gets the lock, runs its critical section, releases
\* the lock and is done; in particular no reachable state has a started call
\* and no step left for it or for the goroutines it waits for.
C17_Terminates == \A t \in Threads : (pc[t] # "idle") ~> (pc[t] = "done")

\* C17 witness: goroutine 2 called RLock while goroutine 1 held the write lock
\* and slept; goroutine 1 has unlocked and is done, and goroutine 2 has been
\* given the read lock and is about to go on.
C17_Witness ==
    /\ pc[1] = "done" /\ op[1] \in {"Def", "Clear"}
    /\ pc[2] = "RLockWait" /\ 2 \in mu.r /\ mu.blocked = {} /\ mu.w = 0


\* C18 as stated: a goroutine inside the critical section of IsValid, Validate
\* or ValuesOf never keeps another goroutine's read from entering: whenever a
\* reader is inside, a goroutine that calls RLock enters at once.
C18_OriginalStep ==
    \A t \in Threads :
       (/\ pc[t] = "RLock" /\ pc'[t] # pc[t]
        /\ \E u \in Threads \ {t} : ReaderInside(u)) => pc'[t] = Entry(op[t])
C18_Original == [][C18_OriginalStep]_vars

\* C18 (readers do not block readers), amended: a goroutine that calls RLock
\* enters its critical section at once exactly when no Def or Clear holds or
\* awaits the lock, however many IsValid, Validate and ValuesOf calls are
\* inside theirs; one that arrives while a writer holds or awaits the lock
\* sleeps until that writer's Unlock; and a reader inside its critical section
\* can always take its next step, up to and including RUnlock, whatever the
\* other goroutines are doing.
C18_Enters ==
    \A t \in Threads :
       (pc[t] = "RLock" /\ pc'[t] # pc[t]) =>
          /\ pc'[t] = Entry(op[t]) <=> mu.w = 0
          /\ pc'[t] # Entry(op[t]) => pc'[t] = "RLockWait"
C18_Proceeds == \A t \in Threads : ReaderInside(t) => ENABLED Inner(t)
C18_ReadersShare == [](C18_Proceeds) /\ [][C18_Enters]_vars

\* C18 witness: three readers are inside their critical sections at the same
\* time, in IsValid, Validate and ValuesOf, after a Def call.
C18_Witness ==
    /\ pc[1] = "IsValid70" /\ op[1] = "IsValid"
    /\ pc[2] = "Validate83" /\ op[2] = "Validate"
    /\ pc[3] = "ValuesOf103" /\ op[3] = "ValuesOf"
    /\ mu.r = {1, 2, 3} /\ mu.w = 0
    /\ hist["OrderStatus"] = << DefOf(1) >>


\* C19 (reads are pure): no step of an IsValid, Validate or ValuesOf call,
\* whatever it returns, changes groups (its keys, its slices, the arrays they
\* point to) or defs; a call for a type without declarations leaves the type
\* without an entry.
C19_Step ==
    \A t \in Threads :
       (op[t] \in {"IsValid", "Validate", "ValuesOf"} /\ pc'[t] # pc[t]) =>
          /\ groups' = groups
          /\ defs' = defs
          /\ \A T \in DOMAIN groups : heap'[groups[T].ptr] = heap[groups[T].ptr]
          /\ hist' = hist
C19_ReadsPure == [][C19_Step]_vars

\* C19 witness: OrderStatus is declared and UserStatus is not; a Validate call
\* for UserStatus returned the 'no definition' error and UserStatus still has
\* no entry in groups and no key in defs.
C19_Witness ==
    /\ pc[1] = "done" /\ op[1] = "Validate" /\ typ[1] = "UserStatus" /\ val[1] = 1
    /\ ret[1].err = "UserStatus doesn't have any definition"
    /\ DOMAIN groups = {"OrderStatus"} /\ KeysOf("UserStatus") = {}
    /\ IsValid("OrderStatus", 1)
====
